---- MODULE Spec2Model ----
(***************************************************************************)
(* State-machine model of the attendance tracker (app.py, slack_bot.py).   *)
(*                                                                         *)
(* Time is counted in half-hour ticks since midnight of day 0 (a Monday);  *)
(* every duration and every "hours" value of the program is a number of    *)
(* ticks, so 1.0h = 2 and 1.5h = 3.  The database tables are sets of rows; *)
(* a row's id is assigned as the table's largest id plus one (the default  *)
(* sqlite:///attendance.db rowid rule).  Python's None is the value None.  *)
(* AttendanceLog (app.py 61-69) has no attendance_start_time and no        *)
(* attendance_end_time column: every AttendanceLog(...) call of            *)
(* slack_bot.py passes both, and the mapped class's constructor raises     *)
(* TypeError for a keyword that is no attribute of the class, so the Slack *)
(* handlers that reach their insert end there ("TypeError") with no row.   *)
(***************************************************************************)
EXTENDS Integers, FiniteSets, Sequences, TLC

None == -1

\* Half-hour ticks per calendar day.
TicksPerDay == 48

\* ---- bounds of the model ----
MaxLogs == 2
MaxExcuses == 1
MaxRequests == 2
MaxMeetings == 6
MaxPeriods == 2
MaxNow == 1

VARIABLES
  users,      \* User rows
  meetings,   \* MeetingHour rows
  logs,       \* AttendanceLog rows
  periods,    \* ReportingPeriod rows
  excuses,    \* Excuse rows
  requests,   \* ExcuseRequest rows
  now,        \* datetime.utcnow()
  result,     \* outcome of the last handler that ran
  inflight,   \* requests that ran their queries and have not yet committed
  response    \* the private response being sent and the Slack API calls it made

vars == <<users, meetings, logs, periods, excuses, requests, now, result, inflight, response>>

\* ---- small helpers ----
Max2(a, b) == IF a >= b THEN a ELSE b
Min2(a, b) == IF a <= b THEN a ELSE b

MaxOf(S) == CHOOSE x \in S : \A y \in S : y <= x

\* Integer primary key of a new row.
NextId(T) == IF T = {} THEN 1 ELSE MaxOf({r.id : r \in T}) + 1

\* Query.get(id): the row or None.
HasRow(T, id) == \E r \in T : r.id = id
Row(T, id) == CHOOSE r \in T : r.id = id

\* Query.all() / .first(): rows in primary-key order.
RECURSIVE ById(_)
ById(T) ==
  IF T = {} THEN <<>>
  ELSE LET r == CHOOSE x \in T : \A y \in T : x.id <= y.id
       IN <<r>> \o ById(T \ {r})

\* (m.end_time - m.start_time).total_seconds() / 3600, in ticks.
duration(m) == m.end_time - m.start_time

\* db.func.date(MeetingHour.start_time)
date(t) == t \div TicksPerDay

\* datetime.weekday(): day 0 is a Monday.
weekday(d) == d % 7

At(day, clock) == day * TicksPerDay + clock

RECURSIVE Sum(_)
Sum(seq) == IF seq = <<>> THEN 0 ELSE Head(seq) + Sum(Tail(seq))

\* ---- rows ----
User(id, name, admin, slack, google) ==
  [id |-> id, username |-> name, is_admin |-> admin,
   slack_user_id |-> slack, google_id |-> google]

MeetingHour(id, s, e, t, by) ==
  [id |-> id, start_time |-> s, end_time |-> e, meeting_type |-> t, created_by |-> by]

AttendanceLog(id, u, m, ph, ip) ==
  [id |-> id, user_id |-> u, meeting_hour_id |-> m, partial_hours |-> ph,
   is_partial |-> ip]

ReportingPeriod(id, s, e, by) ==
  [id |-> id, start_date |-> s, end_date |-> e, created_by |-> by]

ExcuseRequest(id, u, m) ==
  [id |-> id, user_id |-> u, meeting_hour_id |-> m, status |-> "pending",
   reviewed_by |-> None, reviewed_at |-> None, admin_notes |-> None]

Excuse(id, u, m, p, by, rq) ==
  [id |-> id, user_id |-> u, meeting_hour_id |-> m, reporting_period_id |-> p,
   created_by |-> by, excuse_request_id |-> rq]

\* What the last handler reported to its caller.
Outcome(op, u, m, st) == st

\* AttendanceLog.query.filter_by(user_id, meeting_hour_id)
LogsOf(L, u, m) == {l \in L : l.user_id = u /\ l.meeting_hour_id = m}
ExcusesOf(E, u, m) == {x \in E : x.user_id = u /\ x.meeting_hour_id = m}

\* ---- Attendance ledger: what a logging handler decides from its queries ----
\* An effect is the handler's outcome and the AttendanceLog row it is about
\* to add (id still unassigned), or no row.
Effect(op, u, m, st, rows) == [out |-> Outcome(op, u, m, st), rows |-> rows]

\* Variant without the existing-record query.
meeting_id_logging_unchecked(u, meeting_id) ==
  IF ~HasRow(meetings, meeting_id)
  THEN Effect("log_by_id", u, meeting_id, "MeetingNotFound", {})
  ELSE LET meeting_hour == Row(meetings, meeting_id) IN
    Effect("log_by_id", u, meeting_id, "TypeError", {})

\* slack_bot.py _handle_meeting_id_logging: full attendance by meeting id.
meeting_id_logging(u, meeting_id) ==
  IF ~HasRow(meetings, meeting_id)
  THEN Effect("log_by_id", u, meeting_id, "MeetingNotFound", {})
  ELSE LET meeting_hour == Row(meetings, meeting_id) IN
    IF LogsOf(logs, u, meeting_id) # {}
    THEN Effect("log_by_id", u, meeting_id, "AlreadyLogged", {})
    ELSE Effect("log_by_id", u, meeting_id, "TypeError", {})

\* slack_bot.py _handle_outreach_id_logging: as above, outreach events only.
outreach_id_logging(u, outreach_id) ==
  IF ~HasRow(meetings, outreach_id)
  THEN Effect("log_outreach_by_id", u, outreach_id, "MeetingNotFound", {})
  ELSE LET outreach_event == Row(meetings, outreach_id) IN
    IF outreach_event.meeting_type # "outreach"
    THEN Effect("log_outreach_by_id", u, outreach_id, "NotOutreach", {})
    ELSE IF LogsOf(logs, u, outreach_id) # {}
    THEN Effect("log_outreach_by_id", u, outreach_id, "AlreadyLogged", {})
    ELSE Effect("log_outreach_by_id", u, outreach_id, "TypeError", {})

\* The meetings of one type on the date that overlap [start_time, end_time]
\* (slack_bot.py 274-279 and 455-460).
find_overlapping(day, start_time, end_time, mtype) ==
  {m \in meetings : /\ date(m.start_time) = day
                    /\ m.meeting_type = mtype
                    /\ m.start_time <= end_time
                    /\ m.end_time >= start_time}

\* Overlap of one candidate with the logged range; a zero-length meeting
\* inside the range counts for the whole range.
overlap_duration(m, start_time, end_time) ==
  IF /\ m.start_time = m.end_time
     /\ m.start_time >= start_time
     /\ m.start_time <= end_time
  THEN end_time - start_time
  ELSE Min2(m.end_time, end_time) - Max2(m.start_time, start_time)

\* The loop over the candidates: the first one with the strictly greatest
\* overlap wins; None when no overlap is positive.
RECURSIVE best_match(_, _, _, _, _)
best_match(cands, start_time, end_time, best, max_overlap) ==
  IF cands = <<>> THEN best
  ELSE LET m == Head(cands)
           ov == overlap_duration(m, start_time, end_time)
       IN IF ov > max_overlap
          THEN best_match(Tail(cands), start_time, end_time, m.id, ov)
          ELSE best_match(Tail(cands), start_time, end_time, best, max_overlap)

\* Variant that takes the first overlapping meeting found.
resolve_meeting_first(day, start_time, end_time, mtype) ==
  LET cands == find_overlapping(day, start_time, end_time, mtype) IN
  IF cands = {} THEN None
  ELSE Head(ById(cands)).id

\* The meeting a time range on a date resolves to: the id of the best
\* match among the overlapping meetings of the type, or None.
resolve_meeting(day, start_time, end_time, mtype) ==
  LET cands == find_overlapping(day, start_time, end_time, mtype) IN
  IF cands = {} THEN None
  ELSE best_match(ById(cands), start_time, end_time, None, 0)

\* Shared body of the two time-range handlers, which differ in the type.
time_based(op, u, day, sc, ec, mtype) ==
  LET start_time == At(day, sc)
      end_time == At(day, ec)
  IN IF end_time <= start_time
     THEN Effect(op, u, None, "InvalidRange", {})
     ELSE LET best_id == resolve_meeting(day, start_time, end_time, mtype) IN
       IF best_id = None
       THEN Effect(op, u, None, "NoMatchingMeeting", {})
       ELSE IF LogsOf(logs, u, best_id) # {}
       THEN Effect(op, u, best_id, "AlreadyLogged", {})
       ELSE Effect(op, u, best_id, "TypeError", {})

\* slack_bot.py _handle_time_based_logging
time_based_logging(u, day, sc, ec) ==
  time_based("log_by_time", u, day, sc, ec, "regular")

\* slack_bot.py _handle_outreach_time_based_logging
outreach_time_based_logging(u, day, sc, ec) ==
  time_based("log_outreach_by_time", u, day, sc, ec, "outreach")

\* app.py log_attendance (POST /api/attendance); hours_attended None when
\* the field is absent.
api_log_attendance(u, meeting_hour_id, hours_attended) ==
  IF ~HasRow(meetings, meeting_hour_id)
  THEN Effect("api_log", u, meeting_hour_id, "MeetingNotFound", {})
  ELSE LET meeting_hour == Row(meetings, meeting_hour_id)
           total_meeting_hours == duration(meeting_hour)
           is_partial == hours_attended < total_meeting_hours
       IN IF LogsOf(logs, u, meeting_hour_id) # {}
          THEN Effect("api_log", u, meeting_hour_id, "AlreadyLogged", {})
          ELSE IF hours_attended = None
          THEN Effect("api_log", u, meeting_hour_id, "HoursRequired", {})
          ELSE IF hours_attended <= 0
          THEN Effect("api_log", u, meeting_hour_id, "HoursNotPositive", {})
          ELSE IF hours_attended > total_meeting_hours
          THEN Effect("api_log", u, meeting_hour_id, "HoursExceedMeeting", {})
          ELSE Effect("api_log", u, meeting_hour_id, "ok",
                 {AttendanceLog(None, u, meeting_hour_id,
                                IF is_partial THEN hours_attended ELSE None,
                                is_partial)})

\* slack_bot.py handle_attendance_modal_submission: clock times on the
\* meeting's date, the end moved to the next day when not after the start.
attendance_modal_submission(u, meeting_id, sc, ec) ==
  IF ~HasRow(meetings, meeting_id)
  THEN Effect("modal_log", u, meeting_id, "MeetingNotFound", {})
  ELSE LET meeting == Row(meetings, meeting_id)
           meeting_date == date(meeting.start_time)
           start_datetime == At(meeting_date, sc)
           end0 == At(meeting_date, ec)
           end_datetime == IF end0 <= start_datetime THEN end0 + TicksPerDay ELSE end0
           hours_attended == end_datetime - start_datetime
           total_meeting_hours == duration(meeting)
       IN IF LogsOf(logs, u, meeting_id) # {}
          THEN Effect("modal_log", u, meeting_id, "AlreadyLogged", {})
          ELSE IF total_meeting_hours # 0 /\ hours_attended > total_meeting_hours
          THEN Effect("modal_log", u, meeting_id, "HoursExceedMeeting", {})
          ELSE Effect("modal_log", u, meeting_id, "TypeError", {})

\* db.session.add(attendance_log); db.session.commit()
insert_logs(L, rows) ==
  IF rows = {} THEN L
  ELSE L \cup {[r EXCEPT !.id = NextId(L)] : r \in rows}

\* A logging handler run from its queries to its commit without interleaving.
RunLog(eff) ==
  /\ Cardinality(logs) + Cardinality(eff.rows) <= MaxLogs
  /\ logs' = insert_logs(logs, eff.rows)
  /\ result' = eff.out
  /\ UNCHANGED <<users, meetings, periods, excuses, requests, now, inflight, response>>

\* handle_command and handle_attendance_modal_submission find the caller by
\* Slack id; the web API is behind the Google login.
IsSlackUser(u) == \E x \in users : x.id = u /\ x.slack_user_id # None
IsWebUser(u) == \E x \in users : x.id = u /\ x.google_id # None
IsAdmin(u) == \E x \in users : x.id = u /\ x.is_admin

MeetingIdLogging(u, meeting_id) ==
  IsSlackUser(u) /\ RunLog(meeting_id_logging(u, meeting_id))

OutreachIdLogging(u, outreach_id) ==
  IsSlackUser(u) /\ RunLog(outreach_id_logging(u, outreach_id))

TimeBasedLogging(u, day, sc, ec) ==
  IsSlackUser(u) /\ RunLog(time_based_logging(u, day, sc, ec))

OutreachTimeBasedLogging(u, day, sc, ec) ==
  IsSlackUser(u) /\ RunLog(outreach_time_based_logging(u, day, sc, ec))

ApiLogAttendance(u, meeting_hour_id, hours_attended) ==
  IsWebUser(u) /\ RunLog(api_log_attendance(u, meeting_hour_id, hours_attended))

AttendanceModalSubmission(u, meeting_id, sc, ec) ==
  IsSlackUser(u) /\ RunLog(attendance_modal_submission(u, meeting_id, sc, ec))

\* ---- Two requests in flight (one worker thread and one session each) ----
\* A request first runs its queries against the committed tables and decides
\* its effect; its INSERT and COMMIT come later, and another request's steps
\* can fall in between.
BeginTimeBasedLogging(req, u, day, sc, ec) ==
  /\ IsSlackUser(u)
  /\ \A r \in inflight : r.req # req
  /\ inflight' = inflight \cup {[req |-> req, eff |-> time_based_logging(u, day, sc, ec)]}
  /\ UNCHANGED <<users, meetings, logs, periods, excuses, requests, now, result, response>>

BeginMeetingIdLogging(req, u, meeting_id) ==
  /\ IsSlackUser(u)
  /\ \A r \in inflight : r.req # req
  /\ inflight' = inflight \cup {[req |-> req, eff |-> meeting_id_logging(u, meeting_id)]}
  /\ UNCHANGED <<users, meetings, logs, periods, excuses, requests, now, result, response>>

BeginApiLogAttendance(req, u, meeting_hour_id, hours_attended) ==
  /\ IsWebUser(u)
  /\ \A r \in inflight : r.req # req
  /\ inflight' = inflight \cup
       {[req |-> req, eff |-> api_log_attendance(u, meeting_hour_id, hours_attended)]}
  /\ UNCHANGED <<users, meetings, logs, periods, excuses, requests, now, result, response>>

CommitLogging(req) ==
  \E r \in inflight :
    /\ r.req = req
    /\ Cardinality(logs) + Cardinality(r.eff.rows) <= MaxLogs
    /\ logs' = insert_logs(logs, r.eff.rows)
    /\ result' = r.eff.out
    /\ inflight' = inflight \ {r}
    /\ UNCHANGED <<users, meetings, periods, excuses, requests, now, response>>

\* ---- Private responses (slack_bot.py _send_private_response) ----
\* A channel id is its characters; startswith('D') looks at the first.
startswith(str, ch) == Len(str) >= 1 /\ str[1] = ch

\* Frames the interpreter allows before it raises RecursionError.
MaxDepth == 3

\* A handler answers its user: the call pushes the first frame.
SendPrivateResponse(channel_id) ==
  /\ response.status # "running"
  /\ result # "none"
  /\ response' = [status |-> "running", channel_id |-> channel_id, depth |-> 1, calls |-> <<>>]
  /\ UNCHANGED <<users, meetings, logs, periods, excuses, requests, now, result, inflight>>

\* The body of the innermost frame.  For a direct-message channel it calls
\* _send_message, which posts with chat_postMessage and returns (a Slack
\* error is logged there).  Otherwise it calls _send_private_response again
\* with the same arguments; _send_ephemeral_message is not called.
send_private_response_step ==
  IF startswith(response.channel_id, "D")
  THEN [response EXCEPT !.status = "returned", !.depth = 0,
                     !.calls = Append(@, "chat_postMessage")]
  ELSE IF response.depth < MaxDepth
  THEN [response EXCEPT !.depth = @ + 1]
  ELSE [response EXCEPT !.status = "RecursionError", !.depth = 0]

SendPrivateResponseStep ==
  /\ response.status = "running"
  /\ response' = send_private_response_step
  /\ UNCHANGED <<users, meetings, logs, periods, excuses, requests, now, result, inflight>>

\* ---- Bulk importer (app.py parse_csv_attendance_data, import_csv) ----
\* A table is the header's usernames (columns 2 up to the ignored trailing
\* columns) and the data rows; a row is its parsed date (a day number), its
\* meeting length and one cell per header name.  A cell is Blank ('' or
\* '0'), Star ('*') or a positive number of hours.
Blank == 0
Star == -2
\* A cell that float() does not parse: the ValueError is recorded and the
\* cell writes nothing.  A length that does not parse is a length of None.
Invalid == -4

MeetingTypeOf(data_type) == IF data_type = "attendance" THEN "regular" ELSE "outreach"

\* Weekday meetings start at 15:30, weekend meetings at 10:00.
csv_start_time(day) == IF weekday(day) < 5 THEN At(day, 31) ELSE At(day, 20)

\* Variant without the comparison of the hours with the row's length.
process_cell_unvalidated(db, user_id, meeting_hour_id, meeting_length, cell, period_id, created_by) ==
  LET is_bonus_meeting == (meeting_length = 0) IN
  IF cell = Blank THEN db
  ELSE IF cell = Star
  THEN IF ExcusesOf(db.excuses, user_id, meeting_hour_id) = {}
       THEN [db EXCEPT !.excuses = @ \cup {Excuse(NextId(@), user_id, meeting_hour_id,
                                                   period_id, created_by, None)},
                        !.excuses_created = @ + 1]
       ELSE db
  ELSE IF cell <= 0 THEN db
  ELSE LET existing == LogsOf(db.logs, user_id, meeting_hour_id)
           is_partial == IF is_bonus_meeting THEN FALSE ELSE cell < meeting_length
       IN IF existing # {}
          THEN LET existing_log == Head(ById(existing)) IN
               [db EXCEPT !.logs = (@ \ {existing_log}) \cup
                   {[existing_log EXCEPT !.partial_hours = cell, !.is_partial = is_partial]}]
          ELSE [db EXCEPT !.logs = @ \cup {AttendanceLog(NextId(@), user_id, meeting_hour_id,
                                                          cell, is_partial)},
                           !.attendance_logs_created = @ + 1]

\* One user cell of a row, applied to the session's tables.
process_cell(db, user_id, meeting_hour_id, meeting_length, cell, period_id, created_by) ==
  LET is_bonus_meeting == (meeting_length = 0) IN
  IF cell = Blank THEN db
  ELSE IF cell = Star
  THEN IF ExcusesOf(db.excuses, user_id, meeting_hour_id) = {}
       THEN [db EXCEPT !.excuses = @ \cup {Excuse(NextId(@), user_id, meeting_hour_id,
                                                   period_id, created_by, None)},
                        !.excuses_created = @ + 1]
       ELSE db
  ELSE IF cell <= 0 THEN db
  ELSE IF ~is_bonus_meeting /\ cell > meeting_length THEN db
  ELSE LET existing == LogsOf(db.logs, user_id, meeting_hour_id)
           is_partial == IF is_bonus_meeting THEN FALSE ELSE cell < meeting_length
       IN IF existing # {}
          THEN LET existing_log == Head(ById(existing)) IN
               [db EXCEPT !.logs = (@ \ {existing_log}) \cup
                   {[existing_log EXCEPT !.partial_hours = cell, !.is_partial = is_partial]}]
          ELSE [db EXCEPT !.logs = @ \cup {AttendanceLog(NextId(@), user_id, meeting_hour_id,
                                                          cell, is_partial)},
                           !.attendance_logs_created = @ + 1]

RECURSIVE process_cells(_, _, _, _, _, _, _, _)
process_cells(db, user_ids, cells, i, meeting_hour_id, meeting_length, period_id, created_by) ==
  IF i > Len(user_ids) THEN db
  ELSE process_cells(
         process_cell(db, user_ids[i], meeting_hour_id, meeting_length, cells[i],
                      period_id, created_by),
         user_ids, cells, i + 1, meeting_hour_id, meeting_length, period_id, created_by)

\* Variant that counts a meeting for a row it skips.
process_row_counting_skipped(db, user_ids, row, data_type, period_id, created_by) ==
  IF row.day = None \/ row.length < 0 THEN [db EXCEPT !.meetings_created = @ + 1]
  ELSE
  LET meeting_type == MeetingTypeOf(data_type)
      start_time == csv_start_time(row.day)
      end_time == start_time + row.length
      existing == {m \in db.meetings : m.start_time = start_time /\ m.meeting_type = meeting_type}
      new_id == NextId(db.meetings)
      meeting_hour_id == IF existing # {} THEN Head(ById(existing)).id ELSE new_id
      db1 == IF existing # {} THEN db
             ELSE [db EXCEPT !.meetings = @ \cup
                       {MeetingHour(new_id, start_time, end_time, meeting_type, created_by)},
                     !.meetings_created = @ + 1]
  IN process_cells(db1, user_ids, row.cells, 1, meeting_hour_id, row.length, period_id, created_by)

\* Variant that never looks for an existing meeting.
process_row_always_new(db, user_ids, row, data_type, period_id, created_by) ==
  IF row.length < 0 THEN db
  ELSE
  LET meeting_type == MeetingTypeOf(data_type)
      start_time == csv_start_time(row.day)
      end_time == start_time + row.length
      new_id == NextId(db.meetings)
      db1 == [db EXCEPT !.meetings = @ \cup
                {MeetingHour(new_id, start_time, end_time, meeting_type, created_by)},
              !.meetings_created = @ + 1]
  IN process_cells(db1, user_ids, row.cells, 1, new_id, row.length, period_id, created_by)

\* One data row: find or create the meeting, then the user cells.
process_row(db, user_ids, row, data_type, period_id, created_by) ==
  IF row.day = None \/ row.length < 0 THEN db
  ELSE
  LET meeting_type == MeetingTypeOf(data_type)
      start_time == csv_start_time(row.day)
      end_time == start_time + row.length
      existing == {m \in db.meetings : m.start_time = start_time /\ m.meeting_type = meeting_type}
      new_id == NextId(db.meetings)
      meeting_hour_id == IF existing # {} THEN Head(ById(existing)).id ELSE new_id
      db1 == IF existing # {} THEN db
             ELSE [db EXCEPT !.meetings = @ \cup
                       {MeetingHour(new_id, start_time, end_time, meeting_type, created_by)},
                     !.meetings_created = @ + 1]
  IN process_cells(db1, user_ids, row.cells, 1, meeting_hour_id, row.length, period_id, created_by)

RECURSIVE process_rows(_, _, _, _, _, _, _)
process_rows(db, user_ids, rows, i, data_type, period_id, created_by) ==
  IF i > Len(rows) THEN db
  ELSE process_rows(process_row(db, user_ids, rows[i], data_type, period_id, created_by),
                    user_ids, rows, i + 1, data_type, period_id, created_by)

\* The names of the header's user columns; blank cells are left out, so a
\* name's index in the list is its column's only if no cell before it is
\* blank.
usernames(header) ==
  LET named(h) == h # Blank IN SelectSeq(header, named)

\* Username to user id: an existing user of that name, else a new
\* placeholder user (no Slack id, no Google id, not an admin).
RECURSIVE resolve_users(_, _, _)
resolve_users(U, header, i) ==
  IF i > Len(header) THEN [users |-> U, ids |-> <<>>]
  ELSE LET found == {x \in U : x.username = header[i]}
           new_id == NextId(U)
           U1 == IF found # {} THEN U ELSE U \cup {User(new_id, header[i], FALSE, None, None)}
           id == IF found # {} THEN Head(ById(found)).id ELSE new_id
           rest == resolve_users(U1, header, i + 1)
       IN [users |-> rest.users, ids |-> <<id>> \o rest.ids]

\* ---- Date inference for outreach rows (app.py guess_date_for_outreach_row) ----
\* rows[i] is line i of the file counted from 0, the header being line 0;
\* a row without a parseable date has day None.  The parser calls the
\* function with the row's 1-based line number, current_row_idx = i + 1.
\* Days of a table are positive, so that a guessed day is never None.
\* for i in range(current_row_idx - 1, data_start_row - 1, -1)
RECURSIVE scan_above(_, _, _)
scan_above(rows, i, stop) ==
  IF i <= stop THEN None
  ELSE IF i <= Len(rows) /\ rows[i].day # None THEN rows[i].day
  ELSE scan_above(rows, i - 1, stop)

\* for i in range(current_row_idx + 1, len(rows))
RECURSIVE scan_below(_, _)
scan_below(rows, i) ==
  IF i > Len(rows) THEN None
  ELSE IF rows[i].day # None THEN rows[i].day
  ELSE scan_below(rows, i + 1)

guess_date_for_outreach_row(rows, current_row_idx, data_start_row) ==
  LET above_date == scan_above(rows, current_row_idx - 1, data_start_row - 1)
      below_date == scan_below(rows, current_row_idx + 1)
  IN IF above_date # None /\ below_date # None
     THEN above_date + ((below_date - above_date) \div 2)
     ELSE IF above_date # None THEN above_date + 1
     ELSE IF below_date # None THEN below_date - 1
     ELSE None

\* Outreach imports read data from line 2 of the file on.
OutreachDataStartRow == 2

\* The rows with their dates settled: an outreach row without a date gets
\* the guessed one; an attendance row without a date stays undated and is
\* skipped.
dated_rows(rows, data_type) ==
  [i \in 1 .. Len(rows) |->
     IF rows[i].day = None /\ data_type = "outreach"
     THEN [rows[i] EXCEPT !.day = guess_date_for_outreach_row(rows, i + 1, OutreachDataStartRow)]
     ELSE rows[i]]

\* The parser run in a session over the tables U, M, L, E.
parse_csv_session(U, M, L, E, header, rows, data_type, period_id, created_by_user_id) ==
  LET res == resolve_users(U, usernames(header), 1)
      db0 == [users |-> res.users, meetings |-> M, logs |-> L, excuses |-> E,
              meetings_created |-> 0, attendance_logs_created |-> 0, excuses_created |-> 0]
  IN process_rows(db0, res.ids, dated_rows(rows, data_type), 1, data_type, period_id,
                  created_by_user_id)

parse_csv_attendance_data(header, rows, data_type, period_id, created_by_user_id) ==
  parse_csv_session(users, meetings, logs, excuses, header, rows, data_type, period_id,
                    created_by_user_id)

\* POST /admin/import_csv into an existing period; everything is committed
\* once, after the parser returned.
ImportCsv(admin, header, rows, data_type, period_id) ==
  /\ IsAdmin(admin) /\ IsWebUser(admin)
  /\ HasRow(periods, period_id)
  /\ Len(usernames(header)) >= 1 /\ Len(rows) >= 1
  /\ LET db == parse_csv_attendance_data(header, rows, data_type, period_id, admin) IN
       /\ Cardinality(db.logs) <= MaxLogs
       /\ Cardinality(db.excuses) <= MaxExcuses
       /\ Cardinality(db.meetings) <= MaxMeetings
       /\ users' = db.users
       /\ meetings' = db.meetings
       /\ logs' = db.logs
       /\ excuses' = db.excuses
       /\ result' = Outcome("import_csv", admin, None, "ok")
  /\ UNCHANGED <<periods, requests, now, inflight, response>>

\* ---- The import request as one transaction (app.py import_csv) ----
\* What the request leaves in the database.  With period_action "new" the
\* period is added to the session and flushed before the file is read; the
\* parser adds users, meetings, records and excuses to the same session.
\* Only the success path commits; an error answer returns without a commit
\* and the session is removed, with everything in it, when the request ends.
ImportOutcome(status, U, M, L, E, P) ==
  [status |-> status, users |-> U, meetings |-> M, logs |-> L, excuses |-> E, periods |-> P]

\* Variant in which the flushed rows of a failed request stay.
import_csv_keeping_flushed(admin, period_action, period_id, start_day, end_day, header, rows, data_type) ==
  LET new_period == ReportingPeriod(NextId(periods), At(start_day, 0), At(end_day, 0), admin)
      P == IF period_action = "new" THEN periods \cup {new_period} ELSE periods
      pid == IF period_action = "new" THEN new_period.id ELSE period_id
  IN IF period_action = "new" /\ (start_day = None \/ end_day = None)
     THEN ImportOutcome("MissingFields", users, meetings, logs, excuses, periods)
     ELSE IF period_action = "existing" /\ ~HasRow(periods, period_id)
     THEN ImportOutcome("PeriodNotFound", users, meetings, logs, excuses, periods)
     ELSE IF Len(rows) < 1
     THEN ImportOutcome("TooFewRows", users, meetings, logs, excuses, P)
     ELSE IF Len(usernames(header)) = 0
     THEN ImportOutcome("NoUsernames", users, meetings, logs, excuses, P)
     ELSE LET db == parse_csv_session(users, meetings, logs, excuses, header, rows,
                                      data_type, pid, admin)
          IN ImportOutcome("ok", db.users, db.meetings, db.logs, db.excuses, P)

import_csv(admin, period_action, period_id, start_day, end_day, header, rows, data_type) ==
  LET new_period == ReportingPeriod(NextId(periods), At(start_day, 0), At(end_day, 0), admin)
      P == IF period_action = "new" THEN periods \cup {new_period} ELSE periods
      pid == IF period_action = "new" THEN new_period.id ELSE period_id
  IN IF period_action = "new" /\ (start_day = None \/ end_day = None)
     THEN ImportOutcome("MissingFields", users, meetings, logs, excuses, periods)
     ELSE IF period_action = "existing" /\ ~HasRow(periods, period_id)
     THEN ImportOutcome("PeriodNotFound", users, meetings, logs, excuses, periods)
     ELSE IF Len(rows) < 1
     THEN ImportOutcome("TooFewRows", users, meetings, logs, excuses, periods)
     ELSE IF Len(usernames(header)) = 0
     THEN ImportOutcome("NoUsernames", users, meetings, logs, excuses, periods)
     ELSE LET db == parse_csv_session(users, meetings, logs, excuses, header, rows,
                                      data_type, pid, admin)
          IN ImportOutcome("ok", db.users, db.meetings, db.logs, db.excuses, P)

ImportCsvRequest(admin, period_action, period_id, start_day, end_day, header, rows, data_type) ==
  /\ IsAdmin(admin) /\ IsWebUser(admin)
  /\ LET out == import_csv(admin, period_action, period_id, start_day, end_day, header, rows,
                           data_type) IN
       /\ Cardinality(out.logs) <= MaxLogs
       /\ Cardinality(out.excuses) <= MaxExcuses
       /\ Cardinality(out.meetings) <= MaxMeetings
       /\ Cardinality(out.periods) <= MaxPeriods
       /\ users' = out.users
       /\ meetings' = out.meetings
       /\ logs' = out.logs
       /\ excuses' = out.excuses
       /\ periods' = out.periods
       /\ result' = out.status
  /\ UNCHANGED <<requests, now, inflight, response>>

\* ---- Deleting a reporting period (app.py delete_period) ----
\* The meetings that start between the period's two stored instants go,
\* with their records, excuse requests and excuses; so does every excuse
\* stamped with the period, whatever its meeting; then the period itself.
delete_period(period_id) ==
  LET period == Row(periods, period_id)
      meeting_ids == {m.id : m \in {x \in meetings : /\ x.start_time >= period.start_date
                                                     /\ x.start_time <= period.end_date}}
  IN [meetings |-> {m \in meetings : m.id \notin meeting_ids},
      logs |-> {l \in logs : l.meeting_hour_id \notin meeting_ids},
      requests |-> {r \in requests : r.meeting_hour_id \notin meeting_ids},
      excuses |-> {x \in excuses : /\ x.meeting_hour_id \notin meeting_ids
                                   /\ x.reporting_period_id # period_id},
      periods |-> periods \ {period}]

DeletePeriod(admin, period_id) ==
  /\ IsAdmin(admin) /\ IsWebUser(admin)
  /\ HasRow(periods, period_id)
  /\ LET out == delete_period(period_id) IN
       /\ meetings' = out.meetings
       /\ logs' = out.logs
       /\ requests' = out.requests
       /\ excuses' = out.excuses
       /\ periods' = out.periods
  /\ result' = "ok"
  /\ UNCHANGED <<users, now, inflight, response>>

\* ---- User administration (app.py combine_users, combine_user_data) ----
\* Rows of T with column col equal to old get new instead.
Retarget(T, col, old, new) ==
  {IF r[col] = old THEN [r EXCEPT ![col] = new] ELSE r : r \in T}

\* POST /admin/users/combine.  Copying a Slack or Google id into the primary
\* user while the secondary row still holds it breaks the column's unique
\* constraint at the next flush; the handler then rolls back.
CombineUsers(admin, primary_user_id, secondary_user_id) ==
  /\ IsAdmin(admin) /\ IsWebUser(admin)
  /\ HasRow(users, primary_user_id) /\ HasRow(users, secondary_user_id)
  /\ primary_user_id # secondary_user_id
  /\ secondary_user_id # admin
  /\ LET primary_user == Row(users, primary_user_id)
         secondary_user == Row(users, secondary_user_id)
         takes_slack == primary_user.slack_user_id = None /\ secondary_user.slack_user_id # None
         takes_google == primary_user.google_id = None /\ secondary_user.google_id # None
     IN IF takes_slack \/ takes_google
        THEN /\ result' = Outcome("combine_users", primary_user_id, None, "IntegrityError")
             /\ UNCHANGED <<users, meetings, logs, periods, excuses, requests>>
        ELSE /\ users' = users \ {secondary_user}
             /\ logs' = Retarget(logs, "user_id", secondary_user_id, primary_user_id)
             /\ excuses' = Retarget(Retarget(excuses, "user_id", secondary_user_id, primary_user_id),
                                    "created_by", secondary_user_id, primary_user_id)
             /\ requests' = Retarget(Retarget(requests, "user_id", secondary_user_id, primary_user_id),
                                     "reviewed_by", secondary_user_id, primary_user_id)
             /\ meetings' = Retarget(meetings, "created_by", secondary_user_id, primary_user_id)
             /\ periods' = Retarget(periods, "created_by", secondary_user_id, primary_user_id)
             /\ result' = Outcome("combine_users", primary_user_id, None, "ok")
  /\ UNCHANGED <<now, inflight, response>>

\* ---- Admin rights and user deletion (app.py toggle_admin, delete_user) ----
\* Variant without the check that the target is not the caller.
toggle_admin_on_anyone(current_user, user_id) ==
  [status |-> "ok",
   users |-> {IF u.id = user_id THEN [u EXCEPT !.is_admin = ~@] ELSE u : u \in users}]

toggle_admin(current_user, user_id) ==
  IF user_id = current_user
  THEN [status |-> "CannotModifySelf", users |-> users]
  ELSE [status |-> "ok",
        users |-> {IF u.id = user_id THEN [u EXCEPT !.is_admin = ~@] ELSE u : u \in users}]

ToggleAdmin(admin, user_id) ==
  /\ IsAdmin(admin) /\ IsWebUser(admin)
  /\ HasRow(users, user_id)
  /\ LET out == toggle_admin(admin, user_id) IN
       /\ users' = out.users
       /\ result' = out.status
  /\ UNCHANGED <<meetings, logs, periods, excuses, requests, now, inflight, response>>

\* The user's records and excuses are deleted in bulk, then the user.  On
\* the delete the session empties the foreign keys of the rows that still
\* refer to the user through a relationship: the user's excuse requests
\* (user_id) and the excuses the user created for others (created_by) may
\* not be empty, so the commit raises and nothing of the request stays;
\* reviewed_by may be, and is emptied.
delete_user(current_user, user_id) ==
  IF user_id = current_user
  THEN [status |-> "CannotDeleteSelf", users |-> users, logs |-> logs, excuses |-> excuses,
        requests |-> requests]
  ELSE IF \/ \E r \in requests : r.user_id = user_id
          \/ \E x \in excuses : x.created_by = user_id /\ x.user_id # user_id
  THEN [status |-> "IntegrityError", users |-> users, logs |-> logs, excuses |-> excuses,
        requests |-> requests]
  ELSE [status |-> "ok",
        users |-> {u \in users : u.id # user_id},
        logs |-> {l \in logs : l.user_id # user_id},
        excuses |-> {x \in excuses : x.user_id # user_id},
        requests |-> Retarget(requests, "reviewed_by", user_id, None)]

DeleteUser(admin, user_id) ==
  /\ IsAdmin(admin) /\ IsWebUser(admin)
  /\ HasRow(users, user_id)
  /\ LET out == delete_user(admin, user_id) IN
       /\ users' = out.users
       /\ logs' = out.logs
       /\ excuses' = out.excuses
       /\ requests' = out.requests
       /\ result' = out.status
  /\ UNCHANGED <<meetings, periods, now, inflight, response>>

\* ---- Excuse subsystem ----
\* What an excuse handler reports and the tables it commits.
ExcuseEffect(st, R, E) == [status |-> st, requests |-> R, excuses |-> E]

PendingOf(R, u, m) ==
  {r \in R : r.user_id = u /\ r.meeting_hour_id = m /\ r.status = "pending"}

\* Variant without the pending-request query.
submit_request_unchecked(u, meeting) ==
  IF meeting.meeting_type = "outreach"
  THEN ExcuseEffect("OutreachNotExcusable", requests, excuses)
  ELSE IF ExcusesOf(excuses, u, meeting.id) # {}
  THEN ExcuseEffect("AlreadyExcused", requests, excuses)
  ELSE ExcuseEffect("ok",
         requests \cup {ExcuseRequest(NextId(requests), u, meeting.id)}, excuses)

\* The checks and the insert shared by the two request handlers once the
\* meeting is known (slack_bot.py 708-739 and 764-795).
submit_request(u, meeting) ==
  IF meeting.meeting_type = "outreach"
  THEN ExcuseEffect("OutreachNotExcusable", requests, excuses)
  ELSE IF PendingOf(requests, u, meeting.id) # {}
  THEN ExcuseEffect("DuplicatePending", requests, excuses)
  ELSE IF ExcusesOf(excuses, u, meeting.id) # {}
  THEN ExcuseEffect("AlreadyExcused", requests, excuses)
  ELSE ExcuseEffect("ok",
         requests \cup {ExcuseRequest(NextId(requests), u, meeting.id)}, excuses)

\* slack_bot.py _handle_meeting_id_excuse_request
meeting_id_excuse_request(u, meeting_id) ==
  IF ~HasRow(meetings, meeting_id)
  THEN ExcuseEffect("MeetingNotFound", requests, excuses)
  ELSE submit_request(u, Row(meetings, meeting_id))

\* slack_bot.py _handle_date_based_excuse_request: the date must hold
\* exactly one meeting, of any type.
date_based_excuse_request(u, day) ==
  LET on_date == {m \in meetings : date(m.start_time) = day} IN
  IF on_date = {} THEN ExcuseEffect("NoMatchingMeeting", requests, excuses)
  ELSE IF Cardinality(on_date) > 1 THEN ExcuseEffect("MultipleMeetings", requests, excuses)
  ELSE submit_request(u, CHOOSE m \in on_date : TRUE)

\* ReportingPeriod rows whose [start_date, end_date] holds utcnow().
current_periods(t) == {p \in periods : p.start_date <= t /\ p.end_date >= t}

\* slack_bot.py _handle_excuse: the admin shortcut.  The excuse is stamped
\* with the period that is current when the command runs, cp.
handle_excuse(admin, target_user_id, meeting_id, cp) ==
  IF ~HasRow(users, target_user_id)
  THEN ExcuseEffect("UserNotFound", requests, excuses)
  ELSE IF ~HasRow(meetings, meeting_id)
  THEN ExcuseEffect("MeetingNotFound", requests, excuses)
  ELSE IF Row(meetings, meeting_id).meeting_type = "outreach"
  THEN ExcuseEffect("OutreachNotExcusable", requests, excuses)
  ELSE IF cp = None
  THEN ExcuseEffect("NoActivePeriod", requests, excuses)
  ELSE ExcuseEffect("ok", requests,
         excuses \cup {Excuse(NextId(excuses), target_user_id, meeting_id, cp, admin, None)})

\* app.py approve_excuse_request.  The Excuse is built from
\* excuse_request.meeting_hour.reporting_period_id, an attribute MeetingHour
\* does not have: the handler raises there, before any commit, and the
\* request's session is discarded with the status change in it.
approve_excuse_request(admin, request_id, admin_notes) ==
  IF ~HasRow(requests, request_id)
  THEN ExcuseEffect("RequestNotFound", requests, excuses)
  ELSE LET excuse_request == Row(requests, request_id) IN
    IF excuse_request.status # "pending"
    THEN ExcuseEffect("AlreadyReviewed", requests, excuses)
    ELSE IF /\ HasRow(meetings, excuse_request.meeting_hour_id)
            /\ Row(meetings, excuse_request.meeting_hour_id).meeting_type = "outreach"
    THEN ExcuseEffect("OutreachNotExcusable", requests, excuses)
    ELSE ExcuseEffect("AttributeError", requests, excuses)

\* Variant without the status test.
deny_excuse_request_unguarded(admin, request_id, admin_notes) ==
  IF ~HasRow(requests, request_id)
  THEN ExcuseEffect("RequestNotFound", requests, excuses)
  ELSE LET excuse_request == Row(requests, request_id) IN
    ExcuseEffect("denied",
      (requests \ {excuse_request}) \cup
        {[excuse_request EXCEPT !.status = "denied", !.reviewed_by = admin,
                                !.reviewed_at = now, !.admin_notes = admin_notes]},
      excuses)

\* app.py deny_excuse_request
deny_excuse_request(admin, request_id, admin_notes) ==
  IF ~HasRow(requests, request_id)
  THEN ExcuseEffect("RequestNotFound", requests, excuses)
  ELSE LET excuse_request == Row(requests, request_id) IN
    IF excuse_request.status # "pending"
    THEN ExcuseEffect("AlreadyReviewed", requests, excuses)
    ELSE ExcuseEffect("denied",
           (requests \ {excuse_request}) \cup
             {[excuse_request EXCEPT !.status = "denied", !.reviewed_by = admin,
                                     !.reviewed_at = now, !.admin_notes = admin_notes]},
           excuses)

RunExcuse(eff) ==
  /\ Cardinality(eff.requests) <= MaxRequests
  /\ Cardinality(eff.excuses) <= MaxExcuses
  /\ requests' = eff.requests
  /\ excuses' = eff.excuses
  /\ result' = eff.status
  /\ UNCHANGED <<users, meetings, logs, periods, now, inflight, response>>

MeetingIdExcuseRequest(u, meeting_id) ==
  IsSlackUser(u) /\ RunExcuse(meeting_id_excuse_request(u, meeting_id))

DateBasedExcuseRequest(u, day) ==
  IsSlackUser(u) /\ RunExcuse(date_based_excuse_request(u, day))

\* .first() over the current periods has no ORDER BY: any of them.
HandleExcuse(admin, target_user_id, meeting_id) ==
  /\ IsAdmin(admin) /\ IsSlackUser(admin)
  /\ \E cp \in {p.id : p \in current_periods(now)} \cup
               (IF current_periods(now) = {} THEN {None} ELSE {}) :
       RunExcuse(handle_excuse(admin, target_user_id, meeting_id, cp))

ApproveExcuseRequest(admin, request_id, admin_notes) ==
  /\ IsAdmin(admin) /\ IsWebUser(admin)
  /\ RunExcuse(approve_excuse_request(admin, request_id, admin_notes))

DenyExcuseRequest(admin, request_id, admin_notes) ==
  /\ IsAdmin(admin) /\ IsWebUser(admin)
  /\ RunExcuse(deny_excuse_request(admin, request_id, admin_notes))

\* The clock moves on by a day.
Tick ==
  /\ date(now) < MaxNow
  /\ now' = now + TicksPerDay
  /\ UNCHANGED <<users, meetings, logs, periods, excuses, requests, result, inflight, response>>

\* ---- Meetings and periods (app.py add_meeting_admin, add_outreach_admin,
\* create_period_admin; slack_bot.py _handle_add_meeting,
\* _handle_add_outreach, _handle_create_period,
\* handle_add_meeting_modal_submission) ----
\* The web forms and the slash commands parse a date and two HH:MM times
\* and store the meeting; the two times are never compared.
add_meeting(by, day, start_clock, end_clock, meeting_type) ==
  [out |-> "ok",
   rows |-> {MeetingHour(NextId(meetings), At(day, start_clock), At(day, end_clock),
                         meeting_type, by)}]

\* The Slack modal answers "End time must be after start time" unless the
\* end is strictly later than the start.
add_meeting_modal_submission(by, meeting_type, day, start_clock, end_clock) ==
  IF At(day, end_clock) <= At(day, start_clock)
  THEN [out |-> "EndNotAfterStart", rows |-> {}]
  ELSE add_meeting(by, day, start_clock, end_clock, meeting_type)

RunMeeting(eff) ==
  /\ Cardinality(meetings) + Cardinality(eff.rows) <= MaxMeetings
  /\ meetings' = meetings \cup eff.rows
  /\ result' = eff.out
  /\ UNCHANGED <<users, logs, periods, excuses, requests, now, inflight, response>>

AddMeetingAdmin(admin, day, start_clock, end_clock) ==
  /\ IsAdmin(admin) /\ IsWebUser(admin)
  /\ RunMeeting(add_meeting(admin, day, start_clock, end_clock, "regular"))

AddOutreachAdmin(admin, day, start_clock, end_clock) ==
  /\ IsAdmin(admin) /\ IsWebUser(admin)
  /\ RunMeeting(add_meeting(admin, day, start_clock, end_clock, "outreach"))

HandleAddMeeting(admin, day, start_clock, end_clock) ==
  /\ IsAdmin(admin) /\ IsSlackUser(admin)
  /\ RunMeeting(add_meeting(admin, day, start_clock, end_clock, "regular"))

HandleAddOutreach(admin, day, start_clock, end_clock) ==
  /\ IsAdmin(admin) /\ IsSlackUser(admin)
  /\ RunMeeting(add_meeting(admin, day, start_clock, end_clock, "outreach"))

AddMeetingModalSubmission(admin, meeting_type, day, start_clock, end_clock) ==
  /\ IsAdmin(admin) /\ IsSlackUser(admin)
  /\ RunMeeting(add_meeting_modal_submission(admin, meeting_type, day, start_clock, end_clock))

\* A period is given by two dates; strptime("%Y-%m-%d") makes each the
\* midnight that begins its day.  The dates are not compared.
create_period(by, start_day, end_day) ==
  ReportingPeriod(NextId(periods), At(start_day, 0), At(end_day, 0), by)

RunPeriod(row) ==
  /\ Cardinality(periods) + 1 <= MaxPeriods
  /\ periods' = periods \cup {row}
  /\ result' = "ok"
  /\ UNCHANGED <<users, meetings, logs, excuses, requests, now, inflight, response>>

CreatePeriodAdmin(admin, start_day, end_day) ==
  /\ IsAdmin(admin) /\ IsWebUser(admin)
  /\ RunPeriod(create_period(admin, start_day, end_day))

HandleCreatePeriod(admin, start_day, end_day) ==
  /\ IsAdmin(admin) /\ IsSlackUser(admin)
  /\ RunPeriod(create_period(admin, start_day, end_day))

\* ---- Period aggregator (app.py get_user_attendance_data) ----
\* round(x, 2) of the quotient n / d (d > 0), in hundredths; Python rounds
\* a tie to the even neighbour.
round2(n, d) ==
  LET q == n \div d
      r == n % d
  IN IF 2 * r < d THEN q
     ELSE IF 2 * r > d THEN q + 1
     ELSE IF q % 2 = 0 THEN q ELSE q + 1

\* Summed hours of a list of meetings.
meeting_hours(ms) == Sum([i \in 1 .. Len(ms) |-> duration(ms[i])])

\* Summed hours a list of logs counts for: partial_hours when set, else the
\* duration of the log's meeting.
logged_hours(M, ls) ==
  Sum([i \in 1 .. Len(ls) |->
         IF ls[i].partial_hours # None THEN ls[i].partial_hours
         ELSE duration(Row(M, ls[i].meeting_hour_id))])

\* Summed durations of the meetings of a list of excuses.
excused_meeting_hours(M, xs) ==
  Sum([i \in 1 .. Len(xs) |-> duration(Row(M, xs[i].meeting_hour_id))])

\* Team and travel thresholds: percent of regular hours, outreach hours.
TeamPercent == 60
TravelPercent == 75
TeamOutreachHours == 12
TravelOutreachHours == 18

\* Variant that counts the excused outreach events.
excused_outreach_summed(outreach_excuses) ==
  excused_meeting_hours(meetings, ById(outreach_excuses))

\* No outreach hours can be excused (app.py 910).
excused_outreach(outreach_excuses) == 0

\* Variant that truncates instead of rounding.
percentage_truncated(attended, effective_total) ==
  IF effective_total > 0 THEN (attended * 10000) \div effective_total ELSE 0

\* Percentage of the effective total, 0 when there is nothing to attend:
\* the value reported (hundredths of a percent).
percentage(attended, effective_total) ==
  IF effective_total > 0 THEN round2(attended * 10000, effective_total) ELSE 0

\* Variant with a strict comparison.
meets_strict(attended, effective_total, percent) ==
  IF effective_total > 0 THEN attended * 100 > percent * effective_total
  ELSE 0 > percent

\* Threshold test on the unrounded percentage attended / effective * 100.
meets(attended, effective_total, percent) ==
  IF effective_total > 0 THEN attended * 100 >= percent * effective_total
  ELSE 0 >= percent

\* The metrics of one user for one period over tables M, L, E, P; hours are
\* ticks, percentages hundredths of a percent.
attendance_data(M, L, E, P, user_id, period_id) ==
  LET period == Row(P, period_id)
      in_period(m) == m.start_time >= period.start_date /\ m.start_time <= period.end_date
      all_meeting_hours == {m \in M : in_period(m)}
      regular_meetings == {m \in all_meeting_hours : m.meeting_type = "regular"}
      outreach_meetings == {m \in all_meeting_hours : m.meeting_type = "outreach"}
      attendance_logs == {l \in L : /\ l.user_id = user_id
                                    /\ HasRow(M, l.meeting_hour_id)
                                    /\ in_period(Row(M, l.meeting_hour_id))}
      user_excuses == {x \in E : x.user_id = user_id /\ x.reporting_period_id = period_id}
      type_of(r) == Row(M, r.meeting_hour_id).meeting_type
      regular_attended == {l \in attendance_logs : type_of(l) = "regular"}
      outreach_attended == {l \in attendance_logs : type_of(l) = "outreach"}
      regular_excused == {x \in user_excuses : type_of(x) = "regular"}
      outreach_excused == {x \in user_excuses : type_of(x) = "outreach"}
      total_regular_hours == meeting_hours(ById(regular_meetings))
      attended_regular_hours == logged_hours(M, ById(regular_attended))
      excused_regular_hours == excused_meeting_hours(M, ById(regular_excused))
      effective_regular_total_hours == total_regular_hours - excused_regular_hours
      total_outreach_hours == meeting_hours(ById(outreach_meetings))
      attended_outreach_hours == logged_hours(M, ById(outreach_attended))
      excused_outreach_hours == excused_outreach(outreach_excused)
      effective_outreach_hours == total_outreach_hours
      total_hours == total_regular_hours + total_outreach_hours
      attended_hours == attended_regular_hours + attended_outreach_hours
      excused_hours == excused_regular_hours
      effective_total_hours == total_hours - excused_hours
  IN [total_hours |-> total_hours,
      attended_hours |-> attended_hours,
      excused_hours |-> excused_hours,
      effective_total_hours |-> effective_total_hours,
      attendance_percentage |-> percentage(attended_hours, effective_total_hours),
      regular_total_hours |-> total_regular_hours,
      regular_attended_hours |-> attended_regular_hours,
      regular_excused_hours |-> excused_regular_hours,
      regular_effective_total_hours |-> effective_regular_total_hours,
      regular_attendance_percentage |->
        percentage(attended_regular_hours, effective_regular_total_hours),
      meets_team_requirement |->
        meets(attended_regular_hours, effective_regular_total_hours, TeamPercent),
      meets_travel_requirement |->
        meets(attended_regular_hours, effective_regular_total_hours, TravelPercent),
      outreach_total_hours |-> total_outreach_hours,
      outreach_attended_hours |-> attended_outreach_hours,
      outreach_excused_hours |-> excused_outreach_hours,
      outreach_effective_total_hours |-> effective_outreach_hours,
      outreach_meets_team_requirement |-> attended_outreach_hours >= 2 * TeamOutreachHours,
      outreach_meets_travel_requirement |-> attended_outreach_hours >= 2 * TravelOutreachHours]

get_user_attendance_data(user_id, period_id) ==
  attendance_data(meetings, logs, excuses, periods, user_id, period_id)

\* ---- Initial database ----
\* setup.py creates the first admin; the other members signed in through
\* Slack (user 3 never used the Google login).  The admin has added a 2h
\* regular meeting (14:00-16:00), a zero-length bonus meeting (15:30) and a
\* 2h outreach event (15:30-17:30) on day 0, a 2h regular meeting on day 2,
\* and a reporting period from day 0 to day 1.
SeedUsers ==
  {User(1, 1, TRUE, 1, 1), User(2, 2, FALSE, 2, 2), User(3, 3, FALSE, 3, None)}

SeedMeetings ==
  {MeetingHour(1, At(0, 28), At(0, 32), "regular", 1),
   MeetingHour(2, At(0, 31), At(0, 31), "regular", 1),
   MeetingHour(3, At(0, 31), At(0, 35), "outreach", 1),
   MeetingHour(4, At(2, 28), At(2, 32), "regular", 1)}

SeedPeriods == {ReportingPeriod(1, At(0, 0), At(1, 0), 1)}

Init ==
  /\ users = SeedUsers
  /\ meetings = SeedMeetings
  /\ periods = SeedPeriods
  /\ logs = {}
  /\ excuses = {}
  /\ requests = {}
  /\ now = At(0, 33)
  /\ result = Outcome("none", None, None, "none")
  /\ inflight = {}
  /\ response = [status |-> "idle", channel_id |-> <<>>, depth |-> 0, calls |-> <<>>]

\* ---- Inputs of the ledger specification ----
Members == {2, 3}
LedgerMeetings == {1, 2, 3, 5}
LedgerClock == {28, 32}
ApiHours == {None, 2, 4}
ModalTimes == {<<28, 32>>, <<32, 28>>}
CsvCells == {Blank, 2}
CsvRows == [day : {0}, length : {0, 4}, cells : [1 .. 2 -> CsvCells]]
CsvHeader == <<2, 3>>

Next ==
  \/ \E u \in Members, m \in LedgerMeetings : MeetingIdLogging(u, m)
  \/ \E u \in Members, m \in LedgerMeetings : OutreachIdLogging(u, m)
  \/ \E u \in Members, sc \in LedgerClock, ec \in LedgerClock : TimeBasedLogging(u, 0, sc, ec)
  \/ \E u \in Members, sc \in LedgerClock, ec \in LedgerClock : OutreachTimeBasedLogging(u, 0, sc, ec)
  \/ \E u \in Members, m \in LedgerMeetings, h \in ApiHours : ApiLogAttendance(u, m, h)
  \/ \E u \in Members, m \in LedgerMeetings, t \in ModalTimes :
       AttendanceModalSubmission(u, m, t[1], t[2])
  \/ \E r \in CsvRows, t \in {"attendance", "outreach"} : ImportCsv(1, CsvHeader, <<r>>, t, 1)
  \/ \E p \in Members, q \in Members : CombineUsers(1, p, q)

Spec == Init /\ [][Next]_vars

\* ---- Re-logging: the logging handlers and the merge of two users ----
NextRelog ==
  \/ \E u \in Members, m \in LedgerMeetings : MeetingIdLogging(u, m)
  \/ \E u \in Members, m \in LedgerMeetings : OutreachIdLogging(u, m)
  \/ \E u \in Members, sc \in LedgerClock, ec \in LedgerClock : TimeBasedLogging(u, 0, sc, ec)
  \/ \E u \in Members, sc \in LedgerClock, ec \in LedgerClock : OutreachTimeBasedLogging(u, 0, sc, ec)
  \/ \E u \in Members, m \in LedgerMeetings, h \in ApiHours : ApiLogAttendance(u, m, h)
  \/ \E p \in Members, q \in Members : CombineUsers(1, p, q)

SpecRelog == Init /\ [][NextRelog]_vars

\* ---- Concurrent logging ----
Workers == {1, 2}

NextRace ==
  \/ \E w \in Workers, u \in Members, sc \in LedgerClock, ec \in LedgerClock :
       BeginTimeBasedLogging(w, u, 0, sc, ec)
  \/ \E w \in Workers, u \in Members, m \in LedgerMeetings : BeginMeetingIdLogging(w, u, m)
  \/ \E w \in Workers, u \in Members, m \in LedgerMeetings, h \in ApiHours :
       BeginApiLogAttendance(w, u, m, h)
  \/ \E w \in Workers : CommitLogging(w)

SpecRace == Init /\ [][NextRace]_vars

\* ---- Excuse requests and their review ----
RequestIds == 1 .. 3
AdminNotes == {1, 2}
ReviewMeetings == {1, 3, 4}

NextReview ==
  \/ \E u \in Members, m \in ReviewMeetings : MeetingIdExcuseRequest(u, m)
  \/ \E u \in Members, d \in {0, 2} : DateBasedExcuseRequest(u, d)
  \/ \E m \in ReviewMeetings : HandleExcuse(1, 2, m)
  \/ \E r \in RequestIds, n \in AdminNotes : ApproveExcuseRequest(1, r, n)
  \/ \E r \in RequestIds, n \in AdminNotes : DenyExcuseRequest(1, r, n)

SpecReview == Init /\ [][NextReview]_vars

\* ---- Excuses from every entry point, and the metrics over them ----
ExcuseCells == {Blank, Star}
ExcuseRows == [day : {0}, length : {4}, cells : [1 .. 2 -> ExcuseCells]]
ExcuseMeetings == {1, 3, 4}
LoggedMeetings == {1, 3}
ExcuseHours == {2, 4}

NextExcuse ==
  \/ \E m \in ExcuseMeetings : HandleExcuse(1, 2, m)
  \/ \E r \in ExcuseRows, t \in {"attendance", "outreach"} : ImportCsv(1, CsvHeader, <<r>>, t, 1)
  \/ \E m \in LoggedMeetings, h \in ExcuseHours : ApiLogAttendance(2, m, h)
  \/ \E m \in LoggedMeetings : MeetingIdExcuseRequest(2, m)
  \/ \E n \in AdminNotes : ApproveExcuseRequest(1, 1, n)
  \/ Tick

SpecExcuse == Init /\ [][NextExcuse]_vars

\* ---- Metrics over imported hours, added meetings and new periods ----
MetricCells == {Blank, 3, 24, 36}
MetricRows == [day : {0}, length : {0, 4}, cells : [1 .. 1 -> MetricCells]]
MetricHeader == <<2>>
MetricDays == {0, 1}
PeriodEndDays == {0, 2}

NextMetrics ==
  \/ \E r \in MetricRows, t \in {"attendance", "outreach"} : ImportCsv(1, MetricHeader, <<r>>, t, 1)
  \/ \E d \in MetricDays : AddMeetingAdmin(1, d, 28, 29)
  \/ \E d \in PeriodEndDays : CreatePeriodAdmin(1, 0, d)

SpecMetrics == Init /\ [][NextMetrics]_vars

\* ---- Meeting creation from every entry point ----
MeetingClocks == {<<28, 32>>, <<32, 28>>, <<31, 31>>}
MeetingDays == {0, 1}
MeetingRows == [day : {1}, length : {-2, 0, 4}, cells : [1 .. 1 -> {Blank, 2}]]

NextMeetings ==
  \/ \E d \in MeetingDays, c \in MeetingClocks : AddMeetingAdmin(1, d, c[1], c[2])
  \/ \E d \in MeetingDays, c \in MeetingClocks : AddOutreachAdmin(1, d, c[1], c[2])
  \/ \E d \in MeetingDays, c \in MeetingClocks : HandleAddMeeting(1, d, c[1], c[2])
  \/ \E d \in MeetingDays, c \in MeetingClocks : HandleAddOutreach(1, d, c[1], c[2])
  \/ \E t \in {"regular", "outreach"}, d \in MeetingDays, c \in MeetingClocks :
       AddMeetingModalSubmission(1, t, d, c[1], c[2])
  \/ \E r \in MeetingRows, t \in {"attendance", "outreach"} :
       ImportCsv(1, MetricHeader, <<r>>, t, 1)

SpecMeetings == Init /\ [][NextMeetings]_vars

\* ---- Time ranges over several overlapping meetings ----
\* Member 3 holds imported records and logs by time range; the admin adds
\* a second outreach event (14:00-16:00) next to the seeded one.
OverlapRanges == {<<30, 34>>, <<29, 32>>, <<30, 33>>, <<30, 36>>, <<34, 30>>, <<35, 36>>}
OverlapHeader == <<3>>
OverlapRows == [day : {0}, length : {0}, cells : [1 .. 1 -> {Blank, 2, 4}]]

NextOverlap ==
  \/ \E r \in OverlapRanges : TimeBasedLogging(3, 0, r[1], r[2])
  \/ \E r \in OverlapRanges : OutreachTimeBasedLogging(3, 0, r[1], r[2])
  \/ \E r \in OverlapRows, t \in {"attendance", "outreach"} :
       ImportCsv(1, OverlapHeader, <<r>>, t, 1)
  \/ AddOutreachAdmin(1, 0, 28, 32)
  \/ AddMeetingAdmin(1, 0, 32, 36)

SpecOverlap == Init /\ [][NextOverlap]_vars

\* ---- Imports of whole tables ----
\* Cells: blank, '*', 1h, 3h and a negative number.  The rows are on day 1,
\* which has no meeting yet, with a length of 0 (bonus) or 2h.  Header name
\* 4 is not a user yet.
ImportCells == {Blank, Star, 2, 6, -3}
ImportRows == [day : {1}, length : {0, 4}, cells : [1 .. 2 -> ImportCells]]
PairRows == [day : {1}, length : {0, 4}, cells : {<<2, Blank>>, <<Star, 6>>}]
OutreachTables == {<<[day |-> 1, length |-> 0, cells |-> <<6, Blank>>]>>}
ImportTables == {<<r>> : r \in ImportRows} \cup {<<a, b>> : a \in PairRows, b \in PairRows}
ImportHeader == <<2, 4>>

NextImport ==
  \/ \E rows \in ImportTables : ImportCsv(1, ImportHeader, rows, "attendance", 1)
  \/ \E rows \in OutreachTables : ImportCsv(1, ImportHeader, rows, "outreach", 1)

SpecImport == Init /\ [][NextImport]_vars

\* ---- Outreach tables with undated rows ----
GuessDays == {None, 2, 6, 9, 13}
GuessRows == [day : GuessDays, length : {0}, cells : {<<Blank>>, <<2>>}]
GuessTables == {<<a, b>> : a \in GuessRows, b \in GuessRows}
                 \cup {<<a, b, c>> : a \in GuessRows, b \in GuessRows, c \in GuessRows}

NextGuess ==
  \E rows \in GuessTables : ImportCsv(1, MetricHeader, rows, "outreach", 1)

SpecGuess == Init /\ [][NextGuess]_vars

\* ---- Tables with malformed rows ----
\* A row may lack a parseable date, carry a negative or unparseable length,
\* or a cell that is not a number.
MalformedRows == [day : {None, 1, 2}, length : {None, -2, 0, 4}, cells : {<<2>>, <<Invalid>>}]
MalformedTables == {<<a, b>> : a \in MalformedRows, b \in MalformedRows}

NextMalformed ==
  \E rows \in MalformedTables : ImportCsv(1, MetricHeader, rows, "attendance", 1)

SpecMalformed == Init /\ [][NextMalformed]_vars

\* ---- Import requests that succeed or fail ----
\* A request failing after its new period was flushed has no usernames in
\* the header or no data row; one failing before has no end date.
AtomicRows == [day : {1}, length : {4}, cells : {<<2, Blank>>, <<Star, 6>>}]
AtomicRequests ==
  [period_action : {"new", "existing"}, period_id : {1, 3}, end_day : {None, 2},
   header : {<<>>, ImportHeader}, rows : {<<>>} \cup {<<r>> : r \in AtomicRows},
   data_type : {"attendance", "outreach"}]

NextAtomic ==
  \E q \in AtomicRequests :
    ImportCsvRequest(1, q.period_action, q.period_id, 0, q.end_day, q.header, q.rows, q.data_type)

SpecAtomic == Init /\ [][NextAtomic]_vars

\* ---- Periods deleted with their meetings ----
\* Meeting 1 is inside period 1, meeting 4 after it.
NextDelete ==
  \/ \E u \in Members, m \in {1, 4} : HandleExcuse(1, u, m)
  \/ \E u \in Members, m \in {1, 4} : ApiLogAttendance(u, m, 4)
  \/ \E u \in Members, m \in {1, 4} : MeetingIdExcuseRequest(u, m)
  \/ CreatePeriodAdmin(1, 2, 3)
  \/ \E p \in 1 .. 2 : DeletePeriod(1, p)

SpecDelete == Init /\ [][NextDelete]_vars

\* ---- Slash commands answered in a channel or a direct message ----
\* A direct message, a public channel and a private one.
NextSend ==
  \/ \E d \in MeetingDays, c \in MeetingClocks : HandleAddMeeting(1, d, c[1], c[2])
  \/ \E u \in Members, m \in LedgerMeetings : MeetingIdExcuseRequest(u, m)
  \/ \E c \in {<<"D", "0", "1">>, <<"C", "0", "1">>, <<"G", "0", "1">>} : SendPrivateResponse(c)
  \/ SendPrivateResponseStep

SpecSend == Init /\ [][NextSend]_vars

\* ---- Headers with blank cells among the user columns ----
ColumnHeaders == {<<2, 3>>, <<Blank, 3>>, <<2, Blank>>}
ColumnRows == [day : {1, 2}, length : {4}, cells : [1 .. 2 -> {Blank, 2, 4}]]

NextColumns ==
  \E h \in ColumnHeaders, r \in ColumnRows : ImportCsv(1, h, <<r>>, "attendance", 1)

SpecColumns == Init /\ [][NextColumns]_vars

\* ---- Admins managing users ----
\* Every request is made by whoever is an admin at that moment.
NextAdmin ==
  \/ \E a \in 1 .. 3, u \in 1 .. 3 : ToggleAdmin(a, u)
  \/ \E a \in 1 .. 3, u \in 1 .. 3 : DeleteUser(a, u)
  \/ \E a \in 1 .. 3, p \in 1 .. 3, q \in 1 .. 3 : CombineUsers(a, p, q)
  \/ \E u \in Members : ApiLogAttendance(u, 1, 4)
  \/ \E u \in Members : MeetingIdExcuseRequest(u, 1)
  \/ \E a \in 1 .. 3, u \in Members : HandleExcuse(a, u, 1)

SpecAdmin == Init /\ [][NextAdmin]_vars

\* ---- Properties: attendance ledger ----
\* C1: in every reachable state there is at most one AttendanceLog per
\* (user, meeting) pair, whichever ledger writers ran (log by id, by time
\* range, web API, modal, CSV import, combining two users).
AtMostOneLogPerPair ==
  \A a \in logs, b \in logs :
    (a.user_id = b.user_id /\ a.meeting_hour_id = b.meeting_hour_id) => a.id = b.id

\* Every logging request a member can send for meeting m once a record of
\* theirs exists for it is answered AlreadyLogged and adds no row.
RelogAnswers(u, m) ==
  /\ meeting_id_logging(u, m.id) = Effect("log_by_id", u, m.id, "AlreadyLogged", {})
  /\ m.meeting_type = "outreach" =>
       outreach_id_logging(u, m.id) = Effect("log_outreach_by_id", u, m.id, "AlreadyLogged", {})
  /\ \A h \in ApiHours :
       api_log_attendance(u, m.id, h) = Effect("api_log", u, m.id, "AlreadyLogged", {})
  /\ \A sc \in LedgerClock, ec \in LedgerClock :
       LET day == date(m.start_time) IN
       (At(day, ec) > At(day, sc)
        /\ resolve_meeting(day, At(day, sc), At(day, ec), m.meeting_type) = m.id)
         => time_based(IF m.meeting_type = "regular" THEN "log_by_time"
                       ELSE "log_outreach_by_time", u, day, sc, ec, m.meeting_type)
              = Effect("log_by_time", u, m.id, "AlreadyLogged", {})

\* C2: when a user already has an attendance record for a meeting, a further
\* log attempt for it (by meeting id, by a time range that resolves to it,
\* through the web API) fails with AlreadyLogged, and a step that answers
\* AlreadyLogged leaves every record and the number of records unchanged.
SequentialRelogFails ==
  /\ [](\A u \in Members, m \in meetings : LogsOf(logs, u, m.id) # {} => RelogAnswers(u, m))
  /\ [][result' = "AlreadyLogged" => logs' = logs]_vars

\* A member re-logged a meeting they hold a record for and was refused.
RelogRefused ==
  /\ result = "AlreadyLogged"
  /\ \E l \in logs : l.user_id \in Members /\ RelogAnswers(l.user_id, Row(meetings, l.meeting_hour_id))

\* C3: when two logging requests for the same (user, meeting) pair interleave
\* their existence check and their insert, the writer that commits second
\* observes AlreadyLogged and adds no second record.
SecondWriterSeesAlreadyLogged ==
  [][\A r \in inflight :
       (r \notin inflight'
        /\ \E row \in r.eff.rows : LogsOf(logs, row.user_id, row.meeting_hour_id) # {})
         => (result' = "AlreadyLogged" /\ logs' = logs)]_vars

\* ---- Properties: excuses and their review ----
\* C4: in every reachable state no Excuse references an outreach meeting,
\* whichever entry point created it (admin excuse, request approval, the
\* '*' cell of a CSV import).
NoOutreachExcuse ==
  \A x \in excuses :
    HasRow(meetings, x.meeting_hour_id) =>
      Row(meetings, x.meeting_hour_id).meeting_type # "outreach"

\* C5: a request's status only moves pending -> approved or pending ->
\* denied; once reviewed, every approve or deny on it is answered
\* AlreadyReviewed, and no step changes its status, reviewer, review time or
\* note or adds an Excuse linked to it.
ReviewIsFinal ==
  /\ [](\A r \in requests :
         /\ r.status \in {"pending", "approved", "denied"}
         /\ r.status # "pending" =>
              \A n \in AdminNotes :
                /\ approve_excuse_request(1, r.id, n)
                     = ExcuseEffect("AlreadyReviewed", requests, excuses)
                /\ deny_excuse_request(1, r.id, n)
                     = ExcuseEffect("AlreadyReviewed", requests, excuses))
  /\ [][\A r \in requests :
         /\ r.status # "pending" =>
              /\ r \in requests'
              /\ {x \in excuses' : x.excuse_request_id = r.id}
                   = {x \in excuses : x.excuse_request_id = r.id}
         /\ \A q \in requests' :
              (q.id = r.id /\ q.status # r.status) =>
                (r.status = "pending" /\ q.status \in {"approved", "denied"})]_vars

\* A reviewed (denied) request was sent to review again and refused.
ReReviewRefused ==
  /\ result = "AlreadyReviewed"
  /\ \E r \in requests : r.status = "denied" /\ r.reviewed_by = 1 /\ r.admin_notes \in AdminNotes

\* C6: approving a pending request on a regular meeting succeeds: the request
\* becomes approved with reviewer, review time and note set, and exactly one
\* new Excuse for the request's (user, meeting) is linked to it.
ApprovePendingSucceeds ==
  \A r \in requests, n \in AdminNotes :
    (/\ r.status = "pending"
     /\ HasRow(meetings, r.meeting_hour_id)
     /\ Row(meetings, r.meeting_hour_id).meeting_type = "regular") =>
      LET e == approve_excuse_request(1, r.id, n) IN
      /\ \E a \in e.requests :
           /\ a.id = r.id /\ a.status = "approved"
           /\ a.reviewed_by = 1 /\ a.reviewed_at = now /\ a.admin_notes = n
      /\ Cardinality({x \in e.excuses \ excuses :
                        /\ x.excuse_request_id = r.id
                        /\ x.user_id = r.user_id
                        /\ x.meeting_hour_id = r.meeting_hour_id}) = 1

\* C7: submitting an excuse request (by meeting id, or by a date that holds
\* exactly one meeting) fails and creates nothing when the meeting is
\* outreach (OutreachNotExcusable), else when the user has a pending request
\* for it (DuplicatePending), else when the user has an Excuse for it
\* (AlreadyExcused); and there is at most one pending request per
\* (user, meeting).
SubmitRejectsAndPendingUnique ==
  /\ \A u \in Members, m \in meetings :
       LET expected ==
             IF m.meeting_type = "outreach" THEN "OutreachNotExcusable"
             ELSE IF PendingOf(requests, u, m.id) # {} THEN "DuplicatePending"
             ELSE IF ExcusesOf(excuses, u, m.id) # {} THEN "AlreadyExcused"
             ELSE "ok"
           on_date == {x \in meetings : date(x.start_time) = date(m.start_time)}
       IN expected # "ok" =>
            /\ meeting_id_excuse_request(u, m.id) = ExcuseEffect(expected, requests, excuses)
            /\ on_date = {m} =>
                 date_based_excuse_request(u, date(m.start_time))
                   = ExcuseEffect(expected, requests, excuses)
  /\ \A u \in Members, m \in meetings : Cardinality(PendingOf(requests, u, m.id)) <= 1

\* A member who holds a pending request and an Excuse for the same meeting
\* submitted again and was refused.
DuplicateSubmitRefused ==
  /\ result = "DuplicatePending"
  /\ \E r \in requests :
       /\ r.status = "pending"
       /\ ExcusesOf(excuses, r.user_id, r.meeting_hour_id) # {}

\* ---- Properties: period metrics ----
\* The spec's scenario: a period of 31 days with ten regular 2h meetings;
\* user 2 is excused from the first and fully attended eight of the rest.
ScenarioMeetings == {MeetingHour(i, At(i, 28), At(i, 32), "regular", 1) : i \in 1 .. 10}
ScenarioPeriods == {ReportingPeriod(1, At(0, 0), At(30, 0), 1)}
ScenarioExcuses == {Excuse(1, 2, 1, 1, 1, None)}
ScenarioLogs ==
  {AttendanceLog(i, 2, i, None, FALSE) : i \in 2 .. 9}
ScenarioData ==
  attendance_data(ScenarioMeetings, ScenarioLogs, ScenarioExcuses, ScenarioPeriods, 2, 1)

\* p is n / d * 100 to two decimals (hundredths of a percent), d > 0.
IsPercentOf(p, n, d) ==
  LET diff == p * d - n * 10000 IN
  2 * (IF diff >= 0 THEN diff ELSE -diff) <= d

\* C8: for every user and period the effective regular total is the total
\* regular hours minus the excused regular hours; the regular percentage is
\* attended / effective x 100 when the effective total is positive and 0
\* when it is not; ten regular 2h meetings with one excused and eight
\* attended give 18h effective, 16h attended, 88.89% and the travel
\* requirement met.
RegularPercentageOfEffective ==
  /\ \A u \in Members, p \in periods :
       LET d == get_user_attendance_data(u, p.id) IN
       /\ d.regular_effective_total_hours = d.regular_total_hours - d.regular_excused_hours
       /\ d.regular_effective_total_hours > 0 =>
            IsPercentOf(d.regular_attendance_percentage, d.regular_attended_hours,
                        d.regular_effective_total_hours)
       /\ d.regular_effective_total_hours <= 0 => d.regular_attendance_percentage = 0
  /\ ScenarioData.regular_effective_total_hours = 2 * 18
  /\ ScenarioData.regular_attended_hours = 2 * 16
  /\ ScenarioData.regular_attendance_percentage = 8889
  /\ ScenarioData.meets_travel_requirement

\* Member 2 attended a meeting of the period and is excused from all of its
\* regular hours: nothing is left to attend and the percentage is 0.
NothingLeftToAttend ==
  LET d == get_user_attendance_data(2, 1) IN
  /\ d.regular_attended_hours > 0
  /\ d.regular_excused_hours > 0
  /\ d.regular_effective_total_hours <= 0
  /\ d.regular_attendance_percentage = 0

\* C9: the excused regular hours of user U in period P are the summed
\* durations of exactly the regular meetings starting within P that U has an
\* Excuse for, whichever entry point created the Excuse.
ExcusedHoursOfExcusedMeetingsInPeriod ==
  \A u \in Members, p \in periods :
    LET excused_in_period ==
          {m \in meetings : /\ m.meeting_type = "regular"
                            /\ m.start_time >= p.start_date
                            /\ m.start_time <= p.end_date
                            /\ ExcusesOf(excuses, u, m.id) # {}}
    IN get_user_attendance_data(u, p.id).regular_excused_hours
         = meeting_hours(ById(excused_in_period))

\* C10: for every user and period the effective outreach total equals the
\* total outreach hours and the outreach excused hours are 0, also when
\* Excuse rows on outreach meetings exist.
OutreachNeverExcused ==
  \A u \in Members, p \in periods :
    LET d == get_user_attendance_data(u, p.id) IN
    /\ d.outreach_excused_hours = 0
    /\ d.outreach_effective_total_hours = d.outreach_total_hours

\* A member holds an Excuse of the period on an outreach event of the period
\* that has hours to count.
OutreachExcuseExists ==
  \E x \in excuses :
    /\ x.user_id \in Members
    /\ x.reporting_period_id = 1
    /\ Row(meetings, x.meeting_hour_id).meeting_type = "outreach"
    /\ duration(Row(meetings, x.meeting_hour_id)) > 0
    /\ get_user_attendance_data(x.user_id, 1).outreach_total_hours > 0

\* ---- Properties: compliance flags and period membership ----
\* attended is at least percent % of effective; the percentage of nothing
\* to attend is 0.
AtLeastPercentOf(attended, effective, percent) ==
  IF effective > 0 THEN 100 * attended >= percent * effective ELSE 0 >= percent

\* C11: for every user and period, meetsTeamRequirement is exactly "regular
\* attended hours are at least 60% of the effective regular hours" and
\* meetsTravelRequirement the same with 75%, both inclusive; the outreach
\* flags are exactly "attended outreach hours >= 12" and ">= 18" (24 and 36
\* half-hours); a true travel flag implies a true team flag.
ComplianceFlagsAreInclusiveThresholds ==
  \A u \in users, p \in periods :
    LET d == get_user_attendance_data(u.id, p.id) IN
      /\ d.meets_team_requirement <=>
           AtLeastPercentOf(d.regular_attended_hours, d.regular_effective_total_hours, 60)
      /\ d.meets_travel_requirement <=>
           AtLeastPercentOf(d.regular_attended_hours, d.regular_effective_total_hours, 75)
      /\ d.outreach_meets_team_requirement <=> (d.outreach_attended_hours >= 24)
      /\ d.outreach_meets_travel_requirement <=> (d.outreach_attended_hours >= 36)
      /\ d.meets_travel_requirement => d.meets_team_requirement
      /\ d.outreach_meets_travel_requirement => d.outreach_meets_team_requirement

\* C11 witness: user 2 stands at exactly 60% of the regular hours of
\* period 1 (team met, travel not) and at exactly 12 outreach hours.
ExactlyAtTeamThresholds ==
  LET d == get_user_attendance_data(2, 1) IN
    /\ d.regular_effective_total_hours > 0
    /\ 100 * d.regular_attended_hours = 60 * d.regular_effective_total_hours
    /\ d.meets_team_requirement /\ ~d.meets_travel_requirement
    /\ d.outreach_attended_hours = 24
    /\ d.outreach_meets_team_requirement /\ ~d.outreach_meets_travel_requirement

\* C12: the hours a period counts are those of the meetings that start on
\* a day from the period's start date to its end date, the end date
\* included whatever the time of day.
PeriodCountsItsEndDate ==
  \A p \in periods :
    get_user_attendance_data(2, p.id).total_hours =
      meeting_hours(ById({m \in meetings : /\ m.start_time >= p.start_date
                                           /\ date(m.start_time) <= date(p.end_date)}))

\* ---- Properties: meeting creation ----
\* C13: every stored meeting ends no earlier than it starts, whichever
\* entry point created it (web admin forms, /add_meeting, /add_outreach,
\* the Slack modal, CSV import).
EveryMeetingEndsAfterStart ==
  \A m \in meetings : m.end_time >= m.start_time

\* ---- Properties: logging by time range ----
\* The part of meeting m that lies in the range [s, e]; a zero-length
\* meeting inside the range counts for the whole range.
ClippedOverlap(m, s, e) ==
  IF m.start_time = m.end_time
  THEN IF s <= m.start_time /\ m.start_time <= e THEN e - s ELSE 0
  ELSE Min2(m.end_time, e) - Max2(m.start_time, s)

\* The meetings of a type on a day with the greatest (positive) overlap
\* with [s, e], the earliest row among equals.
GreatestOverlap(day, s, e, mtype) ==
  LET on_day == {m \in meetings : date(m.start_time) = day /\ m.meeting_type = mtype} IN
  {m \in on_day :
     /\ ClippedOverlap(m, s, e) > 0
     /\ \A n \in on_day :
          \/ ClippedOverlap(n, s, e) < ClippedOverlap(m, s, e)
          \/ ClippedOverlap(n, s, e) = ClippedOverlap(m, s, e) /\ n.id >= m.id}

TimeRangeStep(r, t) ==
  IF t = "regular" THEN TimeBasedLogging(3, 0, r[1], r[2])
  ELSE OutreachTimeBasedLogging(3, 0, r[1], r[2])

\* C15: a time-range log that resolves to a meeting the member has no
\* record for stores one record on it; for a meeting of positive duration
\* its hours are min(meeting end, range end) - max(meeting start, range
\* start) and it is partial iff they are less than the duration; for a
\* zero-length meeting it is not partial.
TimeRangeLogStoresClippedHours ==
  [][\A r \in OverlapRanges, t \in {"regular", "outreach"} :
       \A m \in GreatestOverlap(0, At(0, r[1]), At(0, r[2]), t) :
         (TimeRangeStep(r, t) /\ r[1] < r[2] /\ LogsOf(logs, 3, m.id) = {}) =>
           \E l \in logs' \ logs :
             LET hours == Min2(m.end_time, At(0, r[2])) - Max2(m.start_time, At(0, r[1])) IN
             /\ l.user_id = 3 /\ l.meeting_hour_id = m.id
             /\ logs' = logs \cup {l}
             /\ duration(m) > 0 => /\ l.is_partial <=> hours < duration(m)
                                   /\ l.is_partial => l.partial_hours = hours
             /\ duration(m) = 0 => ~l.is_partial]_vars

\* C16: a time-range log whose range is longer than the meeting it
\* resolves to is accepted: a record is added for the meeting, not partial,
\* and the step is not answered with an error.
ExtendedAttendanceIsRecorded ==
  [][\A r \in OverlapRanges, t \in {"regular", "outreach"} :
       \A m \in GreatestOverlap(0, At(0, r[1]), At(0, r[2]), t) :
         (/\ TimeRangeStep(r, t)
          /\ duration(m) > 0 /\ At(0, r[2]) - At(0, r[1]) > duration(m)
          /\ At(0, r[1]) <= m.start_time /\ m.end_time <= At(0, r[2])
          /\ LogsOf(logs, 3, m.id) = {}) =>
           /\ result' = "ok"
           /\ \E l \in logs' \ logs : l.meeting_hour_id = m.id /\ ~l.is_partial]_vars

\* ---- Properties: bonus meetings and derived hours ----
\* C17: a member without a record for a zero-length meeting who logs a
\* positive number of hours against it through the web API is answered
\* with success, and a record of theirs for the meeting is added that is
\* not partial.
BonusHoursAccepted ==
  [][\A u \in Members, m \in meetings, h \in ApiHours :
       (/\ duration(m) = 0 /\ LogsOf(logs, u, m.id) = {}
        /\ h # None /\ h > 0
        /\ ApiLogAttendance(u, m.id, h)) =>
         /\ result' = "ok"
         /\ \E l \in logs' \ logs :
              l.user_id = u /\ l.meeting_hour_id = m.id /\ ~l.is_partial]_vars

\* C18: hours logged by time range against a zero-length meeting count in
\* full: when a member's time range resolves to a zero-length meeting of
\* period 1 they hold no record for, their attended hours of the period grow
\* by the length of the range.
BonusRangeCountsInFull ==
  [][\A r \in OverlapRanges :
       \A m \in GreatestOverlap(0, At(0, r[1]), At(0, r[2]), "regular") :
         (/\ TimeBasedLogging(3, 0, r[1], r[2])
          /\ r[1] < r[2] /\ duration(m) = 0
          /\ LogsOf(logs, 3, m.id) = {}) =>
           attendance_data(meetings', logs', excuses', periods', 3, 1).attended_hours
             = get_user_attendance_data(3, 1).attended_hours + (r[2] - r[1])]_vars

\* ---- Properties: bulk import ----
\* The meeting a row of an attendance table on a day is about, in table M.
RowMeetings(M, day) ==
  LET same == {m \in M : m.start_time = csv_start_time(day) /\ m.meeting_type = "regular"}
  IN {m \in same : \A n \in same : n.id >= m.id}

\* C19: in an import of one data row, for each user column: '*' adds one
\* Excuse for (user, meeting) unless one exists and touches no record; a
\* positive number h that is at most the row's length, or any positive h
\* on a bonus row (length 0), creates the user's record or updates the
\* existing one to hours h and partial = (h < length), not partial on a
\* bonus row; every other cell (h above the length of a non-bonus row,
\* blank, zero, negative) changes neither records nor excuses.
CellSemantics ==
  [][\A r \in ImportRows :
       ImportCsv(1, ImportHeader, <<r>>, "attendance", 1) =>
         /\ Cardinality(RowMeetings(meetings', r.day)) = 1
         /\ \A m \in RowMeetings(meetings', r.day), i \in 1 .. Len(ImportHeader) :
              \E u \in users' :
                LET c == r.cells[i]
                    before == LogsOf(logs, u.id, m.id)
                    after == LogsOf(logs', u.id, m.id)
                    excused == ExcusesOf(excuses, u.id, m.id)
                    excused_after == ExcusesOf(excuses', u.id, m.id)
                IN /\ u.username = ImportHeader[i]
                   /\ IF c = Star
                      THEN /\ after = before
                           /\ excused # {} => excused_after = excused
                           /\ excused = {} => Cardinality(excused_after) = 1
                      ELSE IF c > 0 /\ (r.length = 0 \/ c <= r.length)
                      THEN /\ excused_after = excused
                           /\ Cardinality(after) = Max2(1, Cardinality(before))
                           /\ \E l \in after :
                                /\ l.partial_hours = c
                                /\ l.is_partial <=> (r.length # 0 /\ c < r.length)
                                /\ before # {} => \E k \in before : k.id = l.id
                      ELSE after = before /\ excused_after = excused]_vars

\* C19 witness: a row of length 2h on day 1 with the cells 1h and '*' was
\* imported: user 2 holds a partial record of 1h for the row's meeting and
\* the user created for header name 4 an Excuse.
PartialAndExcuseImported ==
  \E m \in meetings :
    /\ date(m.start_time) = 1 /\ duration(m) = 4
    /\ \E l \in LogsOf(logs, 2, m.id) : l.partial_hours = 2 /\ l.is_partial
    /\ \E x \in excuses, u \in users :
         x.meeting_hour_id = m.id /\ x.user_id = u.id /\ u.username = 4

\* What a second import of the same table finds and does, right after the
\* first one, in the current state.
Reimport(rows, data_type) ==
  LET once == parse_csv_attendance_data(ImportHeader, rows, data_type, 1, 1) IN
  [first |-> once,
   second |-> parse_csv_session(once.users, once.meetings, once.logs, once.excuses,
                                ImportHeader, rows, data_type, 1, 1)]

\* C20: in every state, importing a table and then the same table again
\* creates 0 meetings, 0 records and 0 excuses the second time and leaves
\* users, meetings, records and excuses as the first import left them.
ReimportIsIdempotent ==
  \A data_type \in {"attendance", "outreach"} :
    \A rows \in IF data_type = "attendance" THEN ImportTables ELSE OutreachTables :
      LET both == Reimport(rows, data_type) IN
        /\ both.second.users = both.first.users
        /\ both.second.meetings = both.first.meetings
        /\ both.second.logs = both.first.logs
        /\ both.second.excuses = both.first.excuses
        /\ both.second.meetings_created = 0
        /\ both.second.attendance_logs_created = 0
        /\ both.second.excuses_created = 0

\* C20 witness: the tables hold what a two-row table with hours and a '*'
\* brought in (a meeting on day 1, a record of user 2, an Excuse of the new
\* user), and importing that table in this state changes nothing.
ReimportedTableAtRest ==
  /\ result = "ok"
  /\ \E x \in excuses, u \in users : x.user_id = u.id /\ u.username = 4
  /\ \E l \in logs : l.user_id = 2 /\ date(Row(meetings, l.meeting_hour_id).start_time) = 1
  /\ \E a \in PairRows, b \in PairRows :
       /\ a # b
       /\ LET again == parse_csv_attendance_data(ImportHeader, <<a, b>>, "attendance", 1, 1) IN
            /\ again.users = users /\ again.meetings = meetings
            /\ again.logs = logs /\ again.excuses = excuses
            /\ again.meetings_created + again.attendance_logs_created
                 + again.excuses_created = 0

\* ---- Properties: date inference ----
\* The day of the nearest dated row above row k, or None.
RECURSIVE NearestAbove(_, _)
NearestAbove(rows, k) ==
  IF k <= 1 THEN None
  ELSE IF rows[k - 1].day # None THEN rows[k - 1].day
  ELSE NearestAbove(rows, k - 1)

\* The day of the nearest dated row below row k, or None.
RECURSIVE NearestBelow(_, _)
NearestBelow(rows, k) ==
  IF k >= Len(rows) THEN None
  ELSE IF rows[k + 1].day # None THEN rows[k + 1].day
  ELSE NearestBelow(rows, k + 1)

\* The day the rule infers for the undated row k.
InferredDay(rows, k) ==
  LET above == NearestAbove(rows, k)
      below == NearestBelow(rows, k)
  IN IF above # None /\ below # None THEN above + ((below - above) \div 2)
     ELSE IF above # None THEN above + 1
     ELSE IF below # None THEN below - 1
     ELSE None

\* C21: an outreach import gives every undated data row the day inferred
\* from the nearest dated rows above and below it (midpoint, above + 1,
\* below - 1): the row's event exists on that day afterwards; a table with
\* no dated row creates no event.
UndatedRowGetsInferredDay ==
  [][\A rows \in GuessTables :
       ImportCsv(1, MetricHeader, rows, "outreach", 1) =>
         /\ \A k \in 1 .. Len(rows) :
              (rows[k].day = None /\ InferredDay(rows, k) # None) =>
                \E m \in meetings' :
                  /\ m.meeting_type = "outreach"
                  /\ m.start_time = csv_start_time(InferredDay(rows, k))
         /\ (\A k \in 1 .. Len(rows) : rows[k].day = None) => meetings' = meetings]_vars

\* ---- Properties: malformed rows ----
\* A row with a date and a length of at least 0.
WellFormed(row) == row.day # None /\ row.length # None /\ row.length >= 0

\* The well-formed rows of a table, in order.
RECURSIVE WellFormedRows(_)
WellFormedRows(rows) ==
  IF rows = <<>> THEN <<>>
  ELSE IF WellFormed(Head(rows)) THEN <<Head(rows)>> \o WellFormedRows(Tail(rows))
  ELSE WellFormedRows(Tail(rows))

RecordsOf(L, E, R, m) ==
  <<{l \in L : l.meeting_hour_id = m}, {x \in E : x.meeting_hour_id = m},
    {r \in R : r.meeting_hour_id = m}>>

\* C24: when a period is deleted, no record, excuse or excuse request is
\* left that refers to a meeting deleted with it, and the records, excuses
\* and excuse requests of every meeting that stays are what they were.
DeletionCascadesAndSparesOthers ==
  [][\A p \in 1 .. 2 :
       DeletePeriod(1, p) =>
         /\ \A l \in logs' : HasRow(meetings', l.meeting_hour_id)
         /\ \A x \in excuses' : HasRow(meetings', x.meeting_hour_id)
         /\ \A r \in requests' : HasRow(meetings', r.meeting_hour_id)
         /\ \A m \in meetings' :
              RecordsOf(logs', excuses', requests', m.id) =
                RecordsOf(logs, excuses, requests, m.id)]_vars

\* ---- Properties: combining users ----
\* C25: when combining a secondary user into a primary one succeeds, the
\* secondary user is gone, no record, excuse, excuse request, meeting or
\* period refers to the secondary as owner, reviewer or creator, and the
\* primary holds the Slack id and the Google id the secondary had.
CombineMovesEverythingToPrimary ==
  [][\A p \in Members, q \in Members :
       (CombineUsers(1, p, q) /\ result' = "ok") =>
         /\ ~HasRow(users', q)
         /\ \A l \in logs' : l.user_id # q
         /\ \A x \in excuses' : x.user_id # q /\ x.created_by # q
         /\ \A r \in requests' : r.user_id # q /\ r.reviewed_by # q
         /\ \A m \in meetings' : m.created_by # q
         /\ \A r \in periods' : r.created_by # q
         /\ Row(users, q).slack_user_id # None =>
              Row(users', p).slack_user_id = Row(users, q).slack_user_id
         /\ Row(users, q).google_id # None =>
              Row(users', p).google_id = Row(users, q).google_id]_vars

\* ---- Properties: private responses ----
\* C27: a private response that is no longer running has made exactly one
\* Slack API call: chat_postMessage when the channel id starts with 'D',
\* chat_postEphemeral otherwise.
PrivateResponseSendsOneMessage ==
  response.status \notin {"idle", "running"} =>
    /\ response.status = "returned"
    /\ response.calls = IF startswith(response.channel_id, "D")
                     THEN <<"chat_postMessage">>
                     ELSE <<"chat_postEphemeral">>

\* ---- Properties: user columns ----
\* C26: in an import of one data row, for every header cell that names a
\* user, the cell of the row in that same column decides that user's
\* record for the row's meeting: hours h > 0 leave a record of h hours, a
\* blank cell leaves the user's records for the meeting as they were.
ValueReadFromNamedColumn ==
  [][\A h \in ColumnHeaders, r \in ColumnRows :
       ImportCsv(1, h, <<r>>, "attendance", 1) =>
         \A m \in RowMeetings(meetings', r.day), i \in 1 .. Len(h) :
           h[i] # Blank =>
             \E u \in users' :
               /\ u.username = h[i]
               /\ IF r.cells[i] > 0
                  THEN \E l \in LogsOf(logs', u.id, m.id) : l.partial_hours = r.cells[i]
                  ELSE LogsOf(logs', u.id, m.id) = LogsOf(logs, u.id, m.id)]_vars

\* ---- Properties: admins ----
\* C28: whatever admins do to each other with toggle_admin, delete_user and
\* combine_users, one request after the other, an admin user exists.
AnAdminRemains == \E u \in users : u.is_admin

\* C28 witness: the first admin made user 2 an admin, and user 2 then
\* deleted the first admin or merged it away.
FirstAdminGone == ~HasRow(users, 1) /\ IsAdmin(2)

ImportedHoursWithinStoredDuration ==
  \A l \in logs :
    \A m \in {x \in meetings : x.id = l.meeting_hour_id} :
      duration(m) > 0 => l.partial_hours <= duration(m)

====
